---- MODULE Spec2Model ----
(***************************************************************************)
(* kanzo.utils.shell.RemoteShell and kanzo.utils.strings.mask_string.       *)
(*                                                                         *)
(* A thread (Clients) constructs a RemoteShell for a host, and calls       *)
(* execute, run_script and reconnect on it.  The class attribute           *)
(* _connections is the process-wide registry shared by all clients.        *)
(* Text is a sequence of one-character strings.                            *)
(*                                                                         *)
(* The arguments the callers pass (cmd, script, mask_list, can_fail, log,  *)
(* description) and the configuration (sshkey, SHELL_RECONNECT_RETRY) are  *)
(* fixed for a run and drawn by the initial predicate.  What the remote    *)
(* side does is drawn at each step: whether exec_command and connect       *)
(* succeed, the exit status, and the text printed.                         *)
(*                                                                         *)
(* A blocking call is cut where it reads or writes _connections: the test  *)
(* in __init__, the test in _register (with the script that follows it),   *)
(* and the assignment at the end of reconnect (with the connect before it, *)
(* which touches nothing shared).  No lock exists in the source, so the    *)
(* steps of two threads interleave freely.                                 *)
(*                                                                         *)
(* The methods each thread calls on its client (calls) are part of the     *)
(* workload too: in Spec the first thread calls every method, the second   *)
(* constructs clients and reconnects them.                                 *)
(*                                                                         *)
(* close() marks the handle closed; a closed handle gives no channel.  A   *)
(* direct caller of mask_string has its own specification, StringsSpec.    *)
(*                                                                         *)
(* Not modelled: an IOError from reading the public key file.              *)
(***************************************************************************)
EXTENDS Naturals, Sequences, FiniteSets

\* ------------------------------------------------------------------ bounds
MaxHandles == 3      \* SSHClient objects created in one run
MaxRetry == 2        \* largest configured SHELL_RECONNECT_RETRY
MaxIssues == 2       \* successful issuances of one call are counted up to this
MaxRc == 1           \* largest remote exit status
MaxStrLen == 2       \* longest command / script line of MaskSpec
MaxWordLen == 2      \* longest mask word of MaskSpec
MaxMaskWords == 2    \* longest mask_list of MaskSpec
MaxScriptLen == 3    \* longest script of ScriptSpec

Clients == {"t1", "t2"}
Hosts == {"h1"}
Alphabet == {"a", "'"}
NoHandle == 0        \* None / attribute not set / local not bound

\* ------------------------------------------------------------------ text
\* the sequences over S of length at most n
RECURSIVE SeqsUpTo(_, _)
SeqsUpTo(S, n) ==
    IF n = 0 THEN {<<>>}
    ELSE SeqsUpTo(S, n - 1) \cup
         {<<x>> \o t : x \in S, t \in {u \in SeqsUpTo(S, n - 1) : Len(u) = n - 1}}
StrsUpTo(n) == SeqsUpTo(Alphabet, n)

Contains(s, w) ==
    \E i \in 1..(Len(s) + 1 - Len(w)) : SubSeq(s, i, i + Len(w) - 1) = w

\* str.replace(old, new): every non-overlapping occurrence, left to right
RECURSIVE replace(_, _, _)
replace(s, old, new) ==
    IF old = <<>>
    THEN IF s = <<>> THEN new
         ELSE new \o <<Head(s)>> \o replace(Tail(s), old, new)
    ELSE IF Len(s) < Len(old) THEN s
    ELSE IF SubSeq(s, 1, Len(old)) = old
         THEN new \o replace(SubSeq(s, Len(old) + 1, Len(s)), old, new)
         ELSE <<Head(s)>> \o replace(Tail(s), old, new)

STR_MASK == <<"*", "*", "*", "*", "*", "*", "*", "*">>

\* for before, after in replace_list: word = word.replace(before, after)
RECURSIVE rewrite_word(_, _)
rewrite_word(word, replace_list) ==
    IF replace_list = <<>> THEN word
    ELSE rewrite_word(replace(word, Head(replace_list)[1], Head(replace_list)[2]),
                      Tail(replace_list))

RECURSIVE mask_string(_, _, _)
mask_string(unmasked, mask_list, replace_list) ==
    IF mask_list = <<>> THEN unmasked
    ELSE IF Head(mask_list) = <<>>
         THEN mask_string(unmasked, Tail(mask_list), replace_list)
         ELSE mask_string(replace(unmasked,
                                  rewrite_word(Head(mask_list), replace_list),
                                  STR_MASK),
                          Tail(mask_list), replace_list)

\* repl_list = [("'", "'\\''")]
repl_list == << << <<"'">>, <<"'", "\\", "'", "'">> >> >>

\* u'\n'.join(lines)
RECURSIVE join_nl(_)
join_nl(lines) ==
    IF lines = <<>> THEN <<>>
    ELSE IF Len(lines) = 1 THEN Head(lines)
    ELSE Head(lines) \o <<"\n">> \o join_nl(Tail(lines))

RECURSIVE mask_lines(_, _, _)
mask_lines(lines, mlist, rlist) ==
    IF lines = <<>> THEN <<>>
    ELSE <<mask_string(Head(lines), mlist, rlist)>> \o mask_lines(Tail(lines), mlist, rlist)

\* OUTFMT % otype (the header is never masked: kept as three tokens)
OUTFMT(otype) == <<"---- ", otype, " ----">>

\* _process_output(otype, channel, mlist, rlist): (output, log transcript)
_process_output(otype, channel, mlist, rlist) ==
    << join_nl(channel),
       join_nl(<<OUTFMT(otype)>> \o mask_lines(channel, mlist, rlist)) >>

\* ------------------------------------------------------------------ state
VARIABLES
    sshkey,                 \* RemoteShell.sshkey is set (project.DEFAULT_SSH_PRIVATE_KEY)
    SHELL_RECONNECT_RETRY,  \* project.SHELL_RECONNECT_RETRY (0: unset or zero)
    cmd,                    \* the command the callers execute
    script,                 \* the script the callers run (list of lines)
    mask_list,              \* the mask_list the callers pass
    can_fail,               \* the can_fail the callers pass
    log,                    \* the log the callers pass
    description,            \* the description the callers pass (<<>>: None)
    outputs,                \* the texts the remote side can print
    threads,                \* the threads that run
    calls,                  \* the methods each thread calls on its client
    _connections,           \* RemoteShell._connections: host -> handle (NoHandle: no key)
    nextHandle,             \* SSHClient objects created so far
    pc,                     \* where each thread is
    host,                   \* self.host of the thread's client
    _client,                \* self._client of the thread's client
    frame,                  \* the locals of the running call
    obs,                    \* what the running call has done so far
    result,                 \* how the thread's last call ended
    logged,                 \* the last record the thread's client gave logger.info
    closed,                 \* the handles close() was called on
    failed,                 \* a reconnect made by execute failed on the thread's client
    call                    \* a direct call of mask_string: its arguments and result

config == <<sshkey, SHELL_RECONNECT_RETRY, cmd, script, mask_list, can_fail, log,
          description, outputs, threads, calls>>
vars == <<sshkey, SHELL_RECONNECT_RETRY, cmd, script, mask_list, can_fail, log,
          description, outputs, threads, calls,
          _connections, nextHandle, pc, host, _client, frame, obs, result, logged,
          closed, failed, call>>

\* how a call ends: exc = "none" is a return of (rc, stdout, stderr)
Pending == [exc |-> "pending", msg |-> "", host |-> "", command |-> <<>>,
            rc |-> 0, stdout |-> <<>>, stderr |-> <<>>]
Returned(rc, out, err) ==
    [exc |-> "none", msg |-> "", host |-> "", command |-> <<>>,
     rc |-> rc, stdout |-> out, stderr |-> err]
Raised(exc, msg, h, command, err) ==
    [exc |-> exc, msg |-> msg, host |-> h, command |-> command,
     rc |-> 0, stdout |-> <<>>, stderr |-> err]

NoLog == [host |-> "", label |-> <<>>, solog |-> <<>>, selog |-> <<>>]
LogRecord(h, label, solog, selog) ==
    [host |-> h, label |-> label, solog |-> solog, selog |-> selog]

NoFrame == [op |-> "", caller |-> "", retry |-> 0, chout |-> NoHandle]
\* first: how the first issuance ended; nok, nfail: issuances that succeeded,
\* raised; nrec: reconnects completed; nconn: connect attempts; nprov: scripts
\* run by _register; before: the registry entry when the first issuance raised;
\* atCall: the registry entry when reconnect was entered; registered: what
\* _register did in the running reconnect; adopted: __init__ took the
\* registry's handle; afterOk: the command was issued after an issuance of the
\* same call had succeeded; read, rc: the streams were read, and the exit
\* status retrieved; parity: the issuances that succeeded, modulo 2; held: the
\* client's handle when reconnect was entered; ssh: how the ssh subprocess of
\* run_script went; codes: the exit status of each statement of the caller's
\* script, were it run; ran: the statements of the caller's script that ran
NoObs == [first |-> "none", nok |-> 0, nfail |-> 0, nrec |-> 0, nconn |-> 0,
          nprov |-> 0, before |-> NoHandle, atCall |-> NoHandle,
          registered |-> "no", adopted |-> FALSE, afterOk |-> FALSE,
          read |-> FALSE, rc |-> 0, parity |-> 0,
          held |-> NoHandle, ssh |-> "", codes |-> <<>>, ran |-> 0]

\* no direct call of mask_string is made
NoCall == [pc |-> "", unmasked |-> <<>>, mask_list |-> <<>>, replace_list |-> <<>>,
           masked |-> <<>>]

Min(a, b) == IF a < b THEN a ELSE b

\* the public methods of RemoteShell
Methods == {"reconnect", "execute", "run_script", "close"}

\* what a channel can yield, line by line, and what the ssh subprocess can print
ChannelLines == {IF t = <<>> THEN <<>> ELSE <<t>> : t \in outputs}
RemoteText == outputs
TransportError == <<"SSHException">>

InitCommon ==
    /\ _connections = [h \in Hosts |-> NoHandle]
    /\ nextHandle = 0
    /\ pc = [c \in Clients |-> "new"]
    /\ host = [c \in Clients |-> ""]
    /\ _client = [c \in Clients |-> NoHandle]
    /\ frame = [c \in Clients |-> NoFrame]
    /\ obs = [c \in Clients |-> NoObs]
    /\ result = [c \in Clients |-> Pending]
    /\ logged = [c \in Clients |-> NoLog]
    /\ closed = {}
    /\ failed = [c \in Clients |-> FALSE]

\* two threads, one workload: the first calls every method, the second
\* constructs clients and reconnects them
Init ==
    /\ InitCommon
    /\ threads = Clients
    /\ calls = [c \in Clients |-> IF c = "t1" THEN Methods ELSE {"reconnect"}]
    /\ sshkey \in BOOLEAN
    /\ SHELL_RECONNECT_RETRY \in 0..MaxRetry
    /\ cmd = <<"a">>
    /\ script = <<cmd>>
    /\ mask_list = << <<"a">> >>
    /\ can_fail \in BOOLEAN
    /\ log = TRUE
    /\ description = <<>>
    /\ outputs = {cmd}
    /\ call = NoCall

\* the commands and mask lists of MaskSpec: every text over Alphabet up to the
\* bounds, and every mask word as a shell-quoted command would hold it
MaskWords == StrsUpTo(MaxWordLen)
CmdStrings == StrsUpTo(MaxStrLen) \cup {rewrite_word(w, repl_list) : w \in MaskWords}
MaskLists == SeqsUpTo(MaskWords, MaxMaskWords)

\* one thread, every workload
MaskInit ==
    /\ InitCommon
    /\ threads = {"t1"}
    /\ calls = [c \in Clients |-> Methods]
    /\ sshkey = TRUE
    /\ SHELL_RECONNECT_RETRY = 0
    /\ cmd \in CmdStrings
    /\ script = <<cmd>>
    /\ mask_list \in MaskLists
    /\ can_fail \in BOOLEAN
    /\ log = TRUE
    /\ description \in {<<>>, <<"d">>}
    /\ outputs = {cmd}
    /\ call = NoCall

\* an exception leaves the running call
Raise(c, r) ==
    /\ result' = [result EXCEPT ![c] = r]
    /\ pc' = [pc EXCEPT ![c] = "done"]

\* an __init__ that reconnects whatever the registry holds
Construct_always_reconnects(c, h) ==
    /\ c \in threads /\ pc[c] = "new"
    /\ host' = [host EXCEPT ![c] = h]
    /\ _client' = [_client EXCEPT ![c] = NoHandle]
    /\ frame' = [frame EXCEPT ![c] = [NoFrame EXCEPT !.op = "__init__",
                                                      !.caller = "__init__"]]
    /\ obs' = [obs EXCEPT ![c] = [NoObs EXCEPT !.atCall = _connections[h]]]
    /\ result' = [result EXCEPT ![c] = Pending]
    /\ pc' = [pc EXCEPT ![c] = "reg_check"]
    /\ failed' = [failed EXCEPT ![c] = FALSE]
    /\ UNCHANGED <<config, _connections, nextHandle, logged, closed, call>>

\* RemoteShell(host): __init__ up to the test of the registry
Construct(c, h) ==
    /\ c \in threads /\ pc[c] = "new"
    /\ host' = [host EXCEPT ![c] = h]
    /\ _client' = [_client EXCEPT ![c] = NoHandle]
    /\ frame' = [frame EXCEPT ![c] = [NoFrame EXCEPT !.op = "__init__",
                                                      !.caller = "__init__"]]
    /\ obs' = [obs EXCEPT ![c] = [NoObs EXCEPT !.atCall = _connections[h]]]
    /\ result' = [result EXCEPT ![c] = Pending]
    /\ pc' = [pc EXCEPT ![c] = IF _connections[h] # NoHandle THEN "adopt"
                                                             ELSE "reg_check"]
    /\ failed' = [failed EXCEPT ![c] = FALSE]
    /\ UNCHANGED <<config, _connections, nextHandle, logged, closed, call>>

\* self._client = self._connections[host]
Adopt(c) ==
    /\ c \in threads /\ pc[c] = "adopt"
    /\ _client' = [_client EXCEPT ![c] = _connections[host[c]]]
    /\ obs' = [obs EXCEPT ![c].adopted = TRUE]
    /\ result' = [result EXCEPT ![c] = Returned(0, <<>>, <<>>)]
    /\ pc' = [pc EXCEPT ![c] = "done"]
    /\ UNCHANGED <<config, _connections, nextHandle, host, frame, logged,
                   closed, failed, call>>

\* client.reconnect() called by the client's user
Reconnect(c) ==
    /\ c \in threads /\ pc[c] = "idle" /\ "reconnect" \in calls[c]
    /\ frame' = [frame EXCEPT ![c] = [NoFrame EXCEPT !.op = "reconnect",
                                                      !.caller = "reconnect"]]
    /\ obs' = [obs EXCEPT ![c] = [NoObs EXCEPT !.atCall = _connections[host[c]],
                                                !.held = _client[c]]]
    /\ result' = [result EXCEPT ![c] = Pending]
    /\ pc' = [pc EXCEPT ![c] = "reg_check"]
    /\ UNCHANGED <<config, _connections, nextHandle, host, _client, logged,
                   closed, failed, call>>

\* the script _register runs, one token a line
key_script == << <<"mkdir -p ~/.ssh">>, <<"chmod 500 ~/.ssh">>,
                 <<"grep key ~/.ssh/authorized_keys || echo key >> ~/.ssh/authorized_keys">>,
                 <<"chmod 400 ~/.ssh/authorized_keys">>, <<"restorecon -r ~/.ssh">> >>

\* desc = description or '{}...'.format(mask_string(script[0]), mask_list, repl_list):
\* mask_string gets script[0] alone, format() ignores its two other arguments
script_desc(scr, mlist, descr) ==
    IF descr # <<>> THEN descr
    ELSE mask_string(scr[1], <<>>, <<>>) \o <<".", ".", ".">>

\* the two bootstrap lines of run_script, one token each
script_trap == <<"function script_trap(){ exit $? ; }">>
trap_ERR == <<"trap script_trap ERR">>

\* a _script with the bootstrap lines after the caller's
_script_trap_last(scr) == scr \o <<script_trap, trap_ERR>>

\* _script: the two trap lines, then the caller's (_script.extend(script))
_script(scr) == <<script_trap, trap_ERR>> \o scr

\* the exit status of each line of the script fed to bash: the bootstrap lines
\* (a function definition, the trap builtin) exit 0, the caller's statements
\* exit with codes, in order
RECURSIVE statuses(_, _)
statuses(lines, codes) ==
    IF lines = <<>> THEN <<>>
    ELSE IF Head(lines) \in {script_trap, trap_ERR}
         THEN <<0>> \o statuses(Tail(lines), codes)
         ELSE <<Head(codes)>> \o statuses(Tail(lines), Tail(codes))

\* the exit status ssh gives when the session itself fails
SSH_FAILED == 255

\* proc = Popen(['ssh', ..., 'bash -x']); proc.communicate('\n'.join(_script)):
\* when the session fails (up is false) nothing runs; else bash runs the lines
\* in order, each a simple command, and once `trap script_trap ERR` has run
\* (script_trap defined before it) the first line that exits non-zero ends
\* the shell with that status; with no such line the shell ends with the
\* status of the last line.  returncode: proc.returncode; ran: the caller's
\* statements that ran
communicate(lines, codes, up) ==
    LET st == statuses(lines, codes)
        armed(i) == \E j \in 1..(i - 1), k \in 1..(i - 1) :
                       j < k /\ lines[j] = script_trap /\ lines[k] = trap_ERR
        stops == {i \in 1..Len(lines) : st[i] # 0 /\ armed(i)}
        last == IF stops = {} THEN Len(lines)
                ELSE CHOOSE i \in stops : \A j \in stops : i <= j
    IN IF ~up THEN [returncode |-> SSH_FAILED, ran |-> 0]
       ELSE [returncode |-> IF last = 0 THEN 0 ELSE st[last],
             ran |-> Cardinality({i \in 1..last :
                                    lines[i] \notin {script_trap, trap_ERR}})]

\* what each statement of a script can exit with
ExitCodes(scr) == [1..Len(scr) -> 0..MaxRc]

\* a run_script that raises whatever can_fail says
run_script_always_raises(h, scr, canfail, mlist, descr, rc, stdout, stderr) ==
    IF descr = <<>> /\ scr = <<>>
    THEN Raised("IndexError", "list index out of range", h, <<>>, <<>>)
    ELSE IF rc # 0
    THEN Raised("RuntimeError", "Failed to run script", h,
                script_desc(scr, mlist, descr), stderr)
    ELSE Returned(rc, stdout, stderr)

\* run_script, given what the ssh subprocess gave back: how the call ends
run_script(h, scr, canfail, mlist, descr, rc, stdout, stderr) ==
    IF descr = <<>> /\ scr = <<>>
    THEN Raised("IndexError", "list index out of range", h, <<>>, <<>>)
    ELSE IF rc # 0 /\ canfail
    THEN Raised("RuntimeError", "Failed to run script", h,
                script_desc(scr, mlist, descr), stderr)
    ELSE Returned(rc, stdout, stderr)

\* run_script with log=True: the record given to logger.info
run_script_log(h, scr, mlist, descr, stdout, stderr) ==
    LogRecord(h, script_desc(scr, mlist, descr),
              mask_string(stdout, mlist, repl_list),
              mask_string(stderr, mlist, repl_list))

\* a _register that never skips the script
skip_register_never(c) == FALSE

\* a _register that does not test sshkey
no_sshkey_never == FALSE

\* _register: `if not self.sshkey`
no_sshkey == ~sshkey

\* _register: `if self.host in self._connections: return`
skip_register(c) == _connections[host[c]] # NoHandle

\* _register: skipped when the host is in the registry, ValueError when no key
\* is set, else run_script(script, description='ssh-key register')
Register(c) ==
    /\ c \in threads /\ pc[c] = "reg_check"
    /\ IF skip_register(c)
       THEN /\ pc' = [pc EXCEPT ![c] = "connect"]
            /\ obs' = [obs EXCEPT ![c].registered = "skipped"]
            /\ UNCHANGED result
       ELSE IF no_sshkey
       THEN /\ Raise(c, Raised("ValueError", "Attribute sshkey has to be set",
                               host[c], <<>>, <<>>))
            /\ UNCHANGED obs
       ELSE \E codes \in ExitCodes(key_script), up \in BOOLEAN, err \in RemoteText :
              LET proc == communicate(_script(key_script), codes, up)
                  r == run_script(host[c], key_script, TRUE, <<>>,
                                  <<"ssh-key register">>, proc.returncode, <<>>, err)
              IN IF r.exc # "none"
                 THEN /\ Raise(c, r)
                      /\ obs' = [obs EXCEPT ![c].nprov = @ + 1]
                 ELSE /\ pc' = [pc EXCEPT ![c] = "connect"]
                      /\ obs' = [obs EXCEPT ![c].nprov = @ + 1,
                                            ![c].registered = "ran"]
                      /\ UNCHANGED result
    /\ UNCHANGED <<config, _connections, nextHandle, host, _client, frame, logged,
                   closed, failed, call>>

\* a reconnect that keeps the new handle to itself
install_client_only(c, clt) ==
    /\ _client' = [_client EXCEPT ![c] = clt]
    /\ UNCHANGED _connections

\* self._connections[self.host] = self._client = clt
install(c, clt) ==
    /\ _connections' = [_connections EXCEPT ![host[c]] = clt]
    /\ _client' = [_client EXCEPT ![c] = clt]

\* an execute that does not count the reconnect
retry_unchanged(r) == r

\* execute after self.reconnect(): retry -= 1
retry_after(r) == r - 1

\* a reconnect that drops the client's handle when connect fails
connect_failed_drops_handle(c) ==
    /\ _client' = [_client EXCEPT ![c] = NoHandle]
    /\ UNCHANGED _connections

\* reconnect when clt.connect raises: line 118 is not reached
connect_failed(c) == UNCHANGED <<_connections, _client>>

\* reconnect after _register: clt = paramiko.SSHClient(); clt.connect(...),
\* which succeeds at most MaxHandles times in a run; RuntimeError when it
\* fails, else the handle is installed and reconnect returns: to the caller
\* of __init__ or reconnect, or into execute (retry -= 1, the test of the while)
Connect(c) ==
    /\ c \in threads /\ pc[c] = "connect"
    /\ \E ok \in (IF nextHandle < MaxHandles THEN BOOLEAN ELSE {FALSE}) :
         IF ok
         THEN /\ nextHandle' = nextHandle + 1
              /\ install(c, nextHandle + 1)
              /\ obs' = [obs EXCEPT ![c].nconn = @ + 1, ![c].nrec = @ + 1]
              /\ IF frame[c].caller = "execute"
                 THEN /\ frame' = [frame EXCEPT ![c].retry = retry_after(@)]
                      /\ pc' = [pc EXCEPT ![c] = IF retry_after(frame[c].retry) # 0
                                                 THEN "issue" ELSE "read"]
                      /\ UNCHANGED result
                 ELSE /\ pc' = [pc EXCEPT ![c] = "done"]
                      /\ result' = [result EXCEPT ![c] = Returned(0, <<>>, <<>>)]
                      /\ UNCHANGED frame
              /\ UNCHANGED failed
         ELSE /\ Raise(c, Raised("RuntimeError", "Failed to (re)connect to host",
                                 host[c], <<>>, <<>>))
              /\ obs' = [obs EXCEPT ![c].nconn = @ + 1]
              /\ connect_failed(c)
              /\ failed' = [failed EXCEPT ![c] = @ \/ frame[c].caller = "execute"]
              /\ UNCHANGED <<nextHandle, frame>>
    /\ UNCHANGED <<config, host, logged, closed, call>>

\* client.execute(cmd, can_fail, mask_list, log) up to the while:
\* retry = project.SHELL_RECONNECT_RETRY or 1
Execute(c) ==
    /\ c \in threads /\ pc[c] = "idle" /\ "execute" \in calls[c]
    /\ frame' = [frame EXCEPT ![c] =
                   [NoFrame EXCEPT !.op = "execute", !.caller = "execute",
                                   !.retry = IF SHELL_RECONNECT_RETRY = 0 THEN 1
                                             ELSE SHELL_RECONNECT_RETRY]]
    /\ obs' = [obs EXCEPT ![c] = NoObs]
    /\ result' = [result EXCEPT ![c] = Pending]
    /\ pc' = [pc EXCEPT ![c] = "issue"]
    /\ UNCHANGED <<config, _connections, nextHandle, host, _client, logged,
                   closed, failed, call>>

\* self._client.exec_command(cmd) returns: chin, chout, cherr are bound, and
\* the while tests retry, which is as it was
IssueOk(c) ==
    /\ c \in threads /\ pc[c] = "issue"
    /\ _client[c] \notin closed
    /\ frame' = [frame EXCEPT ![c].chout = _client[c]]
    /\ obs' = [obs EXCEPT ![c].nok = Min(@ + 1, MaxIssues),
                          ![c].first = IF @ = "none" THEN "ok" ELSE @,
                          ![c].afterOk = (obs[c].nok >= 1),
                          ![c].parity = 1 - @]
    /\ pc' = [pc EXCEPT ![c] = IF frame[c].retry # 0 THEN "issue" ELSE "read"]
    /\ UNCHANGED <<config, _connections, nextHandle, host, _client, result, logged,
                   closed, failed, call>>

\* self._client.exec_command(cmd) raises paramiko.SSHException: reconnect,
\* or the RuntimeError of the handler when retry is zero
IssueFail(c) ==
    /\ c \in threads /\ pc[c] = "issue"
    /\ obs' = [obs EXCEPT ![c].nfail = @ + 1,
                          ![c].first = IF @ = "none" THEN "err" ELSE @,
                          ![c].before = IF obs[c].nfail = 0 THEN _connections[host[c]] ELSE @,
                          ![c].atCall = _connections[host[c]],
                          ![c].held = _client[c],
                          ![c].registered = "no",
                          ![c].afterOk = (obs[c].nok >= 1)]
    /\ IF frame[c].retry = 0
       THEN Raise(c, Raised("RuntimeError", "Failed to run command", host[c],
                            mask_string(cmd, mask_list, repl_list), TransportError))
       ELSE /\ pc' = [pc EXCEPT ![c] = "reg_check"]
            /\ UNCHANGED result
    /\ UNCHANGED <<config, _connections, nextHandle, host, _client, frame, logged,
                   closed, failed, call>>

\* self._client.exec_command(cmd) on a handle close() was called on raises
\* something that is no paramiko.SSHException: it leaves execute as it is
IssueClosed(c) ==
    /\ c \in threads /\ pc[c] = "issue"
    /\ _client[c] \in closed
    /\ Raise(c, Raised("AttributeError", "open_session", host[c], <<>>, <<>>))
    /\ UNCHANGED <<config, _connections, nextHandle, host, _client, frame, obs, logged,
                   closed, failed, call>>

\* execute after the while: both streams read, the log record, the exit
\* status, and the return or the RuntimeError; UnboundLocalError when no
\* issuance of this call ever bound chout
ReadOutput(c) ==
    /\ c \in threads /\ pc[c] = "read"
    /\ IF frame[c].chout = NoHandle
       THEN /\ Raise(c, Raised("UnboundLocalError", "chout", host[c], <<>>, <<>>))
            /\ UNCHANGED <<logged, obs>>
       ELSE \E outl \in ChannelLines, errl \in ChannelLines, rc \in 0..MaxRc :
              LET masked == mask_string(cmd, mask_list, repl_list)
                  so == _process_output("stdout", outl, mask_list, repl_list)
                  se == _process_output("stderr", errl, mask_list, repl_list)
              IN /\ obs' = [obs EXCEPT ![c].read = TRUE, ![c].rc = rc]
                 /\ logged' = [logged EXCEPT ![c] =
                                 IF log
                                 THEN LogRecord(host[c], masked, so[2], se[2])
                                 ELSE @]
                 /\ IF rc # 0 /\ can_fail
                    THEN Raise(c, Raised("RuntimeError", "Failed to run command",
                                         host[c], masked, se[1]))
                    ELSE /\ result' = [result EXCEPT ![c] = Returned(rc, so[1], se[1])]
                         /\ pc' = [pc EXCEPT ![c] = "done"]
    /\ UNCHANGED <<config, _connections, nextHandle, host, _client, frame,
                   closed, failed, call>>

\* a run_script that goes over the client's cached handle
session_over_handle(c) == _client[c] \notin closed /\ ~failed[c]

\* run_script spawns its own ssh subprocess with subprocess.Popen: nothing of
\* the client's handle or of the registry is asked for
own_session(c) == TRUE

\* client.run_script(script, can_fail, mask_list, log, description): one
\* blocking ssh subprocess
RunScript(c) ==
    /\ c \in threads /\ pc[c] = "idle" /\ "run_script" \in calls[c]
    /\ own_session(c)
    /\ frame' = [frame EXCEPT ![c] =
                   [NoFrame EXCEPT !.op = "run_script", !.caller = "run_script"]]
    /\ IF description = <<>> /\ script = <<>>
       THEN /\ result' = [result EXCEPT ![c] =
                            run_script(host[c], script, can_fail, mask_list,
                                       description, 0, <<>>, <<>>)]
            /\ obs' = [obs EXCEPT ![c] = NoObs]
            /\ UNCHANGED logged
       ELSE \E codes \in ExitCodes(script), up \in BOOLEAN,
               stdout \in RemoteText, stderr \in RemoteText :
              LET proc == communicate(_script(script), codes, up)
              IN /\ logged' = [logged EXCEPT ![c] =
                                 IF log
                                 THEN run_script_log(host[c], script, mask_list,
                                                     description, stdout, stderr)
                                 ELSE @]
                 /\ result' = [result EXCEPT ![c] =
                                 run_script(host[c], script, can_fail, mask_list,
                                            description, proc.returncode,
                                            stdout, stderr)]
                 /\ obs' = [obs EXCEPT ![c] =
                              [NoObs EXCEPT !.ssh = IF up THEN "ok" ELSE "failed",
                                            !.codes = codes,
                                            !.ran = proc.ran,
                                            !.rc = proc.returncode]]
    /\ pc' = [pc EXCEPT ![c] = "done"]
    /\ UNCHANGED <<config, _connections, nextHandle, host, _client, closed, failed, call>>

\* the caller gets the result of the call, or its exception; a failed
\* __init__ leaves the caller without an object
Return(c) ==
    /\ c \in threads /\ pc[c] = "done"
    /\ pc' = [pc EXCEPT ![c] = IF frame[c].op = "__init__" /\ result[c].exc # "none"
                               THEN "new" ELSE "idle"]
    /\ frame' = [frame EXCEPT ![c] = NoFrame]
    /\ obs' = [obs EXCEPT ![c] = NoObs]
    /\ result' = [result EXCEPT ![c] = Pending]
    /\ logged' = [logged EXCEPT ![c] = NoLog]
    /\ UNCHANGED <<config, _connections, nextHandle, host, _client, closed, failed, call>>

\* the thread drops its client object and may construct another
Discard(c) ==
    /\ c \in threads /\ pc[c] = "idle"
    /\ pc' = [pc EXCEPT ![c] = "new"]
    /\ _client' = [_client EXCEPT ![c] = NoHandle]
    /\ failed' = [failed EXCEPT ![c] = FALSE]
    /\ UNCHANGED <<config, _connections, nextHandle, host, frame, obs, result, logged,
                   closed, call>>

\* a close() that also takes the handle out of the registry
close_and_evict(c) ==
    /\ closed' = closed \cup {_client[c]}
    /\ _connections' = [_connections EXCEPT ![host[c]] = NoHandle]

\* self._client.close()
close(c) ==
    /\ closed' = closed \cup {_client[c]}
    /\ UNCHANGED _connections

\* client.close() called by the client's user
Close(c) ==
    /\ c \in threads /\ pc[c] = "idle" /\ "close" \in calls[c]
    /\ close(c)
    /\ UNCHANGED <<config, nextHandle, pc, host, _client, frame, obs, result, logged,
                   failed, call>>

Step(c) ==
    \/ Adopt(c) \/ Register(c) \/ Connect(c)
    \/ IssueOk(c) \/ IssueFail(c) \/ IssueClosed(c) \/ ReadOutput(c) \/ Return(c)

Next ==
    \/ \E c \in Clients, h \in Hosts : Construct(c, h)
    \/ \E c \in Clients : Adopt(c)
    \/ \E c \in Clients : Reconnect(c)
    \/ \E c \in Clients : Register(c)
    \/ \E c \in Clients : Connect(c)
    \/ \E c \in Clients : Execute(c)
    \/ \E c \in Clients : IssueOk(c)
    \/ \E c \in Clients : IssueFail(c)
    \/ \E c \in Clients : IssueClosed(c)
    \/ \E c \in Clients : Close(c)
    \/ \E c \in Clients : ReadOutput(c)
    \/ \E c \in Clients : RunScript(c)
    \/ \E c \in Clients : Return(c)
    \/ \E c \in Clients : Discard(c)

Spec == Init /\ [][Next]_vars

MaskSpec == MaskInit /\ [][Next]_vars

\* one thread, one workload
FairInit ==
    /\ InitCommon
    /\ threads = {"t1"}
    /\ calls = [c \in Clients |-> Methods]
    /\ sshkey \in BOOLEAN
    /\ SHELL_RECONNECT_RETRY \in 0..MaxRetry
    /\ cmd = <<"a">>
    /\ script = <<cmd>>
    /\ mask_list = << <<"a">> >>
    /\ can_fail \in BOOLEAN
    /\ log = TRUE
    /\ description = <<>>
    /\ outputs = {cmd}
    /\ call = NoCall

\* one thread, every script of up to MaxScriptLen one-character lines, run
\* with and without a description
ScriptLines == StrsUpTo(1) \ {<<>>}
ScriptInit ==
    /\ InitCommon
    /\ threads = {"t1"}
    /\ calls = [c \in Clients |-> Methods]
    /\ sshkey = TRUE
    /\ SHELL_RECONNECT_RETRY = 0
    /\ cmd = <<"a">>
    /\ script \in SeqsUpTo(ScriptLines, MaxScriptLen)
    /\ mask_list = << <<"a">> >>
    /\ can_fail \in BOOLEAN
    /\ log = TRUE
    /\ description \in {<<>>, <<"d">>}
    /\ outputs = {cmd}
    /\ call = NoCall

ScriptSpec == ScriptInit /\ [][Next]_vars

\* the arguments of the direct calls of mask_string: texts and mask words
\* over ProbeAlphabet, and these lists of rewrite rules: none, the one the
\* callers in shell.py pass, one that erases a character, one that doubles
\* it, one that turns it into the character of the mask
ProbeAlphabet == {"a", "*"}
ProbeTexts == SeqsUpTo(ProbeAlphabet, MaxStrLen)
ProbeWords == SeqsUpTo(ProbeAlphabet, MaxWordLen)
ProbeLists == SeqsUpTo(ProbeWords, MaxMaskWords)
ProbeRules == {<<>>, repl_list,
               << << <<"a">>, <<>> >> >>,
               << << <<"a">>, <<"a", "a">> >> >>,
               << << <<"a">>, <<"*">> >> >>}

\* no thread runs; one call mask_string(unmasked, mask_list, replace_list)
StringsInit ==
    /\ InitCommon
    /\ threads = {}
    /\ calls = [c \in Clients |-> {}]
    /\ sshkey = TRUE
    /\ SHELL_RECONNECT_RETRY = 0
    /\ cmd = <<"a">>
    /\ script = <<cmd>>
    /\ mask_list = <<>>
    /\ can_fail = TRUE
    /\ log = TRUE
    /\ description = <<>>
    /\ outputs = {cmd}
    /\ \E t \in ProbeTexts, ml \in ProbeLists, rl \in ProbeRules :
         call = [pc |-> "call", unmasked |-> t, mask_list |-> ml,
                 replace_list |-> rl, masked |-> <<>>]

\* mask_string(unmasked, mask_list, replace_list) returns
MaskString ==
    /\ call.pc = "call"
    /\ call' = [call EXCEPT !.pc = "return",
                            !.masked = mask_string(call.unmasked, call.mask_list,
                                                   call.replace_list)]
    /\ UNCHANGED <<config, _connections, nextHandle, pc, host, _client, frame, obs,
                   result, logged, closed, failed>>

StringsNext == MaskString

StringsSpec == StringsInit /\ [][StringsNext]_vars

\* a thread inside a blocking call keeps running
FairSpec == FairInit /\ [][Next]_vars /\ \A c \in Clients : WF_vars(Step(c))

\* ------------------------------------------------------------------ properties
\* the call of thread c that has just ended, or is running, is a call of op
Ended(c, op) == pc[c] = "done" /\ frame[c].op = op
\* the retry count execute starts from: SHELL_RECONNECT_RETRY or 1
EffectiveRetry == IF SHELL_RECONNECT_RETRY = 0 THEN 1 ELSE SHELL_RECONNECT_RETRY

\* C1: every call to execute terminates when each transport operation
\* completes: a thread that is issuing the command eventually reaches the end
\* of the call (a return or an exception).
C1_ExecuteTerminates ==
    \A c \in Clients : (pc[c] = "issue") ~> (pc[c] = "done")

\* C2: with the default retry count, when the first issuance raised a transport
\* error and the reconnect succeeded, the call ends only after the command was
\* issued a second time, and it ends with what that issuance gave (a return or
\* the RuntimeError of a non-zero exit), never for want of an issuance.
C2_RetryIssuesAgain ==
    \A c \in Clients :
        (Ended(c, "execute") /\ SHELL_RECONNECT_RETRY = 0
         /\ obs[c].first = "err" /\ obs[c].nrec >= 1)
        => /\ obs[c].nok + obs[c].nfail >= 2
           /\ result[c].exc # "UnboundLocalError"

\* C3: when every issuance of a call raised a transport error and every
\* reconnect succeeded, the call ends with the RuntimeError of execute that
\* carries the message of the last transport error.
C3_ExhaustedRaisesConnectionError ==
    \A c \in Clients :
        (Ended(c, "execute") /\ obs[c].nok = 0 /\ obs[c].nfail >= 1
         /\ obs[c].nrec = obs[c].nfail)
        => /\ result[c].exc = "RuntimeError"
           /\ result[c].msg = "Failed to run command"
           /\ result[c].stderr = TransportError

\* C4: within one execute call, once an issuance has succeeded the command is
\* not issued again (and so no reconnect follows it).
C4_NoReissueAfterSuccess ==
    \A c \in Clients : frame[c].op = "execute" => ~obs[c].afterOk

C6_ConnectionReuse ==
    \A c \in Clients :
        (Ended(c, "__init__") /\ obs[c].atCall # NoHandle)
        => /\ result[c].exc = "none"
           /\ obs[c].nprov = 0 /\ obs[c].nconn = 0
           /\ _client[c] # NoHandle
           /\ _connections[host[c]] = obs[c].atCall
              => /\ _client[c] = obs[c].atCall
                 /\ \A d \in Clients \ {c} :
                       (pc[d] = "idle" /\ host[d] = host[c]
                        /\ _client[d] = _connections[host[d]])
                       => _client[c] = _client[d]

C6_Witness ==
    \E c \in Clients, d \in Clients :
        /\ c # d /\ Ended(c, "__init__") /\ obs[c].adopted
        /\ pc[d] = "idle" /\ host[d] = host[c]
        /\ _client[d] # NoHandle /\ _client[c] = _client[d]

\* C7 as stated: every reconnect has run the key registration script when it
\* opens the new channel.
C7_ReconnectAlwaysRegisters ==
    \A c \in Clients :
        pc[c] = "connect" => obs[c].registered = "ran"

\* C7 as amended: a reconnect runs the key registration script before it
\* opens the new channel only on first contact, when the registry holds no
\* handle for the host; when the registry held one as reconnect was entered
\* (always so when a transport failure in execute triggers it) _register
\* skips the script and the channel is opened without it.
C7_RegistersOnlyOnFirstContact ==
    \A c \in Clients :
        pc[c] = "connect"
        => /\ obs[c].registered \in {"ran", "skipped"}
           /\ (obs[c].registered = "ran" => obs[c].atCall = NoHandle /\ sshkey)
           /\ (obs[c].atCall # NoHandle
                  => obs[c].registered = "skipped" /\ obs[c].nprov = 0)
           /\ (frame[c].caller = "execute" => obs[c].atCall # NoHandle)

C7_Witness ==
    \E c \in Clients :
        /\ pc[c] = "connect" /\ frame[c].caller = "execute"
        /\ obs[c].registered = "skipped" /\ obs[c].nfail >= 1

\* C8: when two threads have each finished constructing or reconnecting a
\* client of the same host, both clients hold the handle the registry holds
\* for the host.
C8_BothHoldRegistryHandle ==
    \A c \in Clients, d \in Clients :
        (/\ c # d /\ host[c] = host[d]
         /\ pc[c] = "done" /\ frame[c].op \in {"__init__", "reconnect"}
         /\ pc[d] = "done" /\ frame[d].op \in {"__init__", "reconnect"}
         /\ result[c].exc = "none" /\ result[d].exc = "none")
        => /\ _client[c] = _connections[host[c]]
           /\ _client[d] = _connections[host[d]]

\* C9: in run_script called without a description, no non-empty word of
\* mask_list that occurs in the first script line occurs in the description
\* the RuntimeError carries, nor in the label of the log record.
C9_DerivedDescriptionMasked ==
    \A c \in Clients :
        (Ended(c, "run_script") /\ description = <<>>)
        => \A i \in 1..Len(mask_list) :
             (mask_list[i] # <<>> /\ Contains(script[1], mask_list[i]))
             => /\ (result[c].exc = "RuntimeError"
                      => ~Contains(result[c].command, mask_list[i]))
                /\ (log => ~Contains(logged[c].label, mask_list[i]))

\* C10: when the remote exit status is non-zero and can_fail is true, execute
\* raises the RuntimeError that carries the masked command and the raw
\* stderr, and the command it carries contains no non-empty word of mask_list.
C10_ErrorCommandMasked ==
    \A c \in Clients :
        (Ended(c, "execute") /\ obs[c].read /\ obs[c].rc # 0 /\ can_fail)
        => /\ result[c].exc = "RuntimeError"
           /\ result[c].msg = "Failed to run command"
           /\ result[c].command = mask_string(cmd, mask_list, repl_list)
           /\ result[c].stderr \in outputs
           /\ \A i \in 1..Len(mask_list) :
                 mask_list[i] # <<>> => ~Contains(result[c].command, mask_list[i])

C12_FailedIsTerminal ==
    \A c \in Clients :
        (failed[c] /\ pc[c] # "done")
        => obs[c].nok = 0 /\ obs[c].nfail = 0 /\ obs[c].nconn = 0

\* C13: the construction of a client for a host the registry holds no handle
\* for, with no sshkey set, ends with the ValueError of _register: no script
\* was run, no connect attempt made (so none repeated), the registry still
\* holds no handle for the host, and the client none.
C13_NoKeyConstructionFails ==
    \A c \in Clients :
        (Ended(c, "__init__") /\ obs[c].atCall = NoHandle /\ ~sshkey)
        => /\ result[c].exc = "ValueError"
           /\ obs[c].nprov = 0 /\ obs[c].nconn = 0
           /\ _connections[host[c]] = NoHandle
           /\ _client[c] = NoHandle

C13_Witness ==
    \E c \in Clients :
        /\ Ended(c, "__init__") /\ ~sshkey /\ result[c].exc = "ValueError"
        /\ obs[c].atCall = NoHandle

\* C14: run_script can be called on every idle client, whatever its handle is
\* (closed, or left by a failed reconnect); the call leaves the registry, every
\* client's handle, and what is closed or failed as they are; and, given a
\* script line or a description, it runs its own ssh subprocess.
C14_RunScriptIndependent ==
    /\ [](\A c \in Clients :
            (c \in threads /\ pc[c] = "idle" /\ "run_script" \in calls[c])
            => ENABLED RunScript(c))
    /\ [][\A c \in Clients :
            (pc[c] = "idle" /\ pc'[c] = "done" /\ frame'[c].op = "run_script")
            => /\ UNCHANGED <<_connections, _client, nextHandle, closed, failed>>
               /\ (script # <<>> \/ description # <<>>) => obs'[c].ssh # ""]_vars

C14_Witness ==
    \E c \in Clients :
        /\ Ended(c, "run_script") /\ obs[c].ssh = "ok"
        /\ _client[c] \in closed /\ failed[c]

RECURSIVE MaskingOf(_, _, _)
MaskingOf(out, inp, words) ==
    IF inp = <<>> THEN out = <<>>
    ELSE \/ /\ out # <<>> /\ Head(out) = Head(inp)
            /\ MaskingOf(Tail(out), Tail(inp), words)
         \/ \E w \in words :
              /\ w # <<>> /\ Len(w) <= Len(inp) /\ SubSeq(inp, 1, Len(w)) = w
              /\ Len(out) >= Len(STR_MASK)
              /\ SubSeq(out, 1, Len(STR_MASK)) = STR_MASK
              /\ MaskingOf(SubSeq(out, Len(STR_MASK) + 1, Len(out)),
                           SubSeq(inp, Len(w) + 1, Len(inp)), words)

\* the non-empty words of a mask list, each after the rewrite rules
Rewritten(mlist, rlist) ==
    {rewrite_word(mlist[i], rlist) : i \in {j \in 1..Len(mlist) : mlist[j] # <<>>}}

\* C16: for every text, mask list and list of rewrite rules, the result of
\* mask_string contains no non-empty mask word, taken after the rewrite rules,
\* that the text contained, and it is the text with occurrences of such words
\* replaced by the mask and nothing else changed.
C16_MaskStringComplete ==
    call.pc = "return"
    => LET words == Rewritten(call.mask_list, call.replace_list)
       IN /\ \A w \in words :
                Contains(call.unmasked, w) => ~Contains(call.masked, w)
          /\ MaskingOf(call.masked, call.unmasked, words)

\* C17: every client that is not inside a call holds the handle the registry
\* holds for its host.
C17_NoStaleHandle ==
    \A c \in Clients :
        (c \in threads /\ pc[c] = "idle") => _client[c] = _connections[host[c]]

\* C18: in an execute call the reconnects begun and the reconnects completed
\* never exceed the retry count the call started from (SHELL_RECONNECT_RETRY,
\* or 1 when that is unset or zero): each completed one takes one from retry.
C18_ReconnectsBounded ==
    \A c \in Clients :
        frame[c].op = "execute"
        => /\ obs[c].nrec <= EffectiveRetry
           /\ obs[c].nfail <= EffectiveRetry
           /\ obs[c].nconn <= EffectiveRetry
           /\ obs[c].nrec + frame[c].retry = EffectiveRetry

C18_Witness ==
    \E c \in Clients :
        /\ Ended(c, "execute") /\ SHELL_RECONNECT_RETRY = MaxRetry
        /\ obs[c].nrec = MaxRetry

\* a call of reconnect by thread c has ended: the method itself, or __init__
\* that found no handle in the registry
ReconnectEnded(c) ==
    /\ pc[c] = "done"
    /\ \/ frame[c].op = "reconnect"
       \/ frame[c].op = "__init__" /\ ~obs[c].adopted

C20_CloseKeepsRegistry ==
    /\ [][\A c \in Clients :
            Close(c)
            => /\ closed' = closed \cup {_client[c]}
               /\ UNCHANGED <<_connections, _client, nextHandle, failed, pc>>]_vars
    /\ [](\A c \in Clients :
            (Ended(c, "__init__") /\ obs[c].atCall \in closed)
            => /\ result[c].exc = "none"
               /\ obs[c].nprov = 0 /\ obs[c].nconn = 0
               /\ _connections[host[c]] = obs[c].atCall
                  => _client[c] = obs[c].atCall /\ _client[c] \in closed)

C20_Witness ==
    \E c \in Clients :
        /\ Ended(c, "__init__") /\ obs[c].adopted
        /\ _client[c] \in closed /\ _client[c] = _connections[host[c]]

====
